---- MODULE Spec2Model ----
(***************************************************************************)
(* The reVerb webview: the correlation bridge (vscodeFetch and the window  *)
(* 'message' listener), the inputState redux slice with its thunks, and    *)
(* the command router of ReverbPanel on the extension host.                *)
(***************************************************************************)
EXTENDS Integers, Sequences, FiniteSets, TLC

\* ---------------------------------------------------------------- bounds
MaxCalls == 2       \* vscodeFetch calls issued over a run of Spec
MaxFaults == 1      \* envelopes reaching the listener that the router did not send
MaxEdits == 1       \* local reducer dispatches over a run of SpecStore
MaxStoreCalls == 1  \* vscodeFetch calls issued over a run of SpecStore
MaxLocalEdits == 2  \* local reducer dispatches over a run of SpecLocal
MaxPanels == 3      \* ReverbPanel instances constructed over a run of SpecPanel
MaxPanelCalls == 1  \* vscodeFetch calls issued over a run of SpecPanel
MaxList == 2        \* length of the header and cookie lists of SpecBuild
MaxBuildCalls == 1  \* vscodeFetch calls issued over a run of SpecBuild

\* ------------------------------------------------------- JavaScript values
\* the string 'default' (urlState, presetState and reducer payloads are either
\* this sentinel or an object)
default == [sentinel |-> "default"]
\* the value undefined
undefined == [sentinel |-> "undefined"]

\* JSON.stringify / JSON.parse of an object: the text is kept as a wrapped value
JSONstringify(v) == [json |-> v]
JSONparse(s) == s.json

\* o.id of a value that may be the string 'default' (a string has no id)
IdOf(o) == IF "id" \in DOMAIN o THEN o.id ELSE "undefined"

\* delete m[k] on a map
DeleteKey(m, k) == [x \in (DOMAIN m) \ {k} |-> m[x]]
\* m[k] = v on a map
PutKey(m, k, v) == [x \in (DOMAIN m) \cup {k} |-> IF x = k THEN v ELSE m[x]]

\* ------------------------------------------------------- input domains
ContentTypeJson == [key |-> "Content-Type", value |-> "application/json"]
ContentTypeText == [key |-> "Content-Type", value |-> "text/plain"]
XToken == [key |-> "X-Token", value |-> "abc"]

HeaderPayloads ==
    { [headers |-> <<>>], [headers |-> <<XToken>>], [headers |-> <<ContentTypeText>>] }
CookiePayloads ==
    { [cookies |-> <<>>], [cookies |-> <<[key |-> "a", value |-> "b"]>>] }
DataPayloads == {"", "{}"}
MethodPayloads == {"GET"}
ParamPayloads == { [name |-> "id", value |-> "7"] }

Preset1 == [id |-> "p1", name |-> "one", headerState |-> [headers |-> <<XToken>>],
            cookieState |-> [cookies |-> <<>>], dataState |-> "{}"]
Preset2 == [id |-> "p2", name |-> "two", headerState |-> [headers |-> <<ContentTypeJson>>],
            cookieState |-> [cookies |-> <<>>], dataState |-> ""]
PresetPayloads == {default, JSONstringify(Preset1), JSONstringify(Preset2)}

\* the href of a url object: the text of its origin followed by its path, kept
\* as the sequence of its parts
Href(origin, pathname) == <<origin>> \o pathname

Url1 == [filePath |-> "/srv/users.js", origin |-> "http://localhost:3000",
         pathname |-> <<"users", ":id">>,
         href |-> Href("http://localhost:3000", <<"users", ":id">>),
         presets |-> ("p1" :> Preset1 @@ "p2" :> Preset2)]
Url2 == [filePath |-> "/srv/items.js", origin |-> "http://localhost:3000",
         pathname |-> <<"items">>,
         href |-> Href("http://localhost:3000", <<"items">>),
         presets |-> <<>>]
UrlPayloads == {default, JSONstringify(Url1), JSONstringify(Url2)}

MasterPartial == [serverPaths |-> <<"/x">>, rootDirectory |-> "/root"]
Master1 == [domains |-> {"localhost:3000"}, serverPaths |-> <<"/x">>, rootDirectory |-> "/root"]
Master2 == [domains |-> {"localhost:3000", "localhost:4000"}, serverPaths |-> <<"/x">>,
            rootDirectory |-> "/root"]
Response1 == [status |-> 200]

\* payloads the UI passes to vscApi and wipeStorageObject
VscApiPayloads ==
    { [command |-> "parseServer", data |-> "/root"],
      [command |-> "deletePreset", data |-> "p1"],
      [command |-> "wipeStorageObject"] }
WipePayloads == { [command |-> "wipeStorageObject"] }
PortPayloads == {3000}
NamePayloads == {"three"}

\* ------------------------------------------------------- the slice: state
initialState ==
    [ inputs |-> [ urlState |-> default,
                   presetState |-> default,
                   methodState |-> "",
                   headerState |-> [headers |-> <<>>],
                   cookieState |-> [cookies |-> <<>>],
                   dataState |-> "",
                   paramState |-> <<>> ],
      masterObject |-> [domains |-> {}, serverPaths |-> <<>>, rootDirectory |-> ""],
      requestResult |-> <<>>,
      validPort |-> TRUE,
      waiting |-> FALSE,
      loading |-> TRUE ]

\* a reducer's outcome: the next state, or the error it threw (the store then
\* keeps the state it had)
Ok(s) == [state |-> s, threw |-> FALSE]
Threw(s) == [state |-> s, threw |-> TRUE]

resetInputsKeepParams(s) ==
    [s EXCEPT !.inputs = [s.inputs EXCEPT !.presetState = default,
                                          !.headerState = [headers |-> <<>>],
                                          !.cookieState = [cookies |-> <<>>],
                                          !.dataState = ""]]
resetInputs(s) ==
    [s EXCEPT !.inputs = [s.inputs EXCEPT !.presetState = default,
                                          !.headerState = [headers |-> <<>>],
                                          !.cookieState = [cookies |-> <<>>],
                                          !.dataState = "",
                                          !.paramState = <<>>]]

setUrlState(s, payload) ==
    IF payload = default
    THEN [s EXCEPT !.inputs.urlState = default]
    ELSE [resetInputs(s) EXCEPT !.inputs.urlState = JSONparse(payload)]

setMethodState(s, payload) == [s EXCEPT !.inputs.methodState = payload]
setHeaderState(s, payload) == [s EXCEPT !.inputs.headerState = payload]
setCookieState(s, payload) == [s EXCEPT !.inputs.cookieState = payload]

\* the number of headers with key 'Content-Type'
CountContentType(headers) ==
    Cardinality({i \in DOMAIN headers : headers[i].key = "Content-Type"})

setDataStateUnchecked(s, payload) ==
    LET s1 == [s EXCEPT !.inputs.dataState = payload]
    IN  IF s1.inputs.dataState # ""
        THEN [s1 EXCEPT !.inputs.headerState.headers = <<ContentTypeJson>> \o @]
        ELSE s1
setDataState(s, payload) ==
    LET s1 == [s EXCEPT !.inputs.dataState = payload]
        _headers == CountContentType(s1.inputs.headerState.headers)
    IN  IF s1.inputs.dataState # "" /\ _headers = 0
        THEN [s1 EXCEPT !.inputs.headerState.headers = <<ContentTypeJson>> \o @]
        ELSE s1

setParamState(s, payload) ==
    [s EXCEPT !.inputs.paramState = PutKey(@, payload.name, payload.value)]

setLoading(s, payload) == [s EXCEPT !.loading = payload]
setWaiting(s, payload) == [s EXCEPT !.waiting = payload]
setValidPort(s, payload) == [s EXCEPT !.validPort = payload]

setCurrentPreset(s, payload) ==
    IF payload = default
    THEN resetInputs(s)
    ELSE LET data == JSONparse(payload)
         IN  [s EXCEPT !.inputs.presetState = data,
                       !.inputs.headerState = data.headerState,
                       !.inputs.cookieState = data.cookieState,
                       !.inputs.dataState = data.dataState]

setMasterObject(s, payload) == [s EXCEPT !.masterObject = payload.data]

\* states of the store a user reaches from initialState by local dispatches
WorkingState1 ==
    setMethodState(
        setCurrentPreset(setUrlState(initialState, JSONstringify(Url1)),
                         JSONstringify(Preset1)),
        "GET")
WorkingState2 ==
    setParamState(
        setDataState(
            setCookieState(
                setHeaderState(setUrlState(initialState, JSONstringify(Url1)),
                               [headers |-> <<ContentTypeText>>]),
                [cookies |-> <<[key |-> "a", value |-> "b"]>>]),
            "{}"),
        [name |-> "id", value |-> "7"])
StoreStates == {initialState, WorkingState1, WorkingState2}

\* the entries a user types into the header, cookie and parameter rows
HeaderEntries ==
    { XToken, [key |-> "cookie", value |-> "x=1"], [key |-> "X-Empty", value |-> ""] }
CookieEntries ==
    { [key |-> "a", value |-> "b"], [key |-> "c", value |-> "d"],
      [key |-> "a", value |-> ""], [key |-> "", value |-> "v"] }
ParamMaps ==
    { <<>>, "id" :> "7", "id" :> "", "id" :> "a b", "page" :> "2",
      "id" :> "7" @@ "page" :> "2" }
Lists(S) == UNION {[1..n -> S] : n \in 0..MaxList}

\* the store after setUrlState(Url1), setMethodState, setHeaderState,
\* setCookieState and one setParamState for each parameter
BuildState(h, c, ps) ==
    LET s1 == setCookieState(
                  setHeaderState(
                      setMethodState(setUrlState(initialState, JSONstringify(Url1)), "GET"),
                      [headers |-> h]),
                  [cookies |-> c])
    IN  [s1 EXCEPT !.inputs.paramState = ps]
BuildStates ==
    {BuildState(h, c, ps) : h \in Lists(HeaderEntries), c \in Lists(CookieEntries),
                            ps \in ParamMaps}

\* ------------------------------------------------- the slice: extraReducers
getMasterObject_fulfilledReplace(s, payload) ==
    Ok([s EXCEPT !.masterObject = payload.data, !.loading = FALSE])
getMasterObject_fulfilled(s, payload) ==
    IF "domains" \notin DOMAIN payload.data
    THEN Ok([s EXCEPT !.masterObject.serverPaths = payload.data.serverPaths,
                      !.masterObject.rootDirectory = payload.data.rootDirectory])
    ELSE Ok([s EXCEPT !.masterObject = payload.data, !.loading = FALSE])

vscApi_fulfilledNoWipeCase(s, payload) ==
    Ok([s EXCEPT !.masterObject = payload.data, !.loading = FALSE])
vscApi_fulfilled(s, payload) ==
    LET s1 == IF payload.command # "wipeStorageObject"
              THEN [s EXCEPT !.masterObject = payload.data, !.loading = FALSE]
              ELSE s
    IN  IF payload.command = "deletePreset"
        THEN LET id == IdOf(s1.inputs.presetState)
             IN  IF s1.inputs.urlState = default
                 THEN Threw(s)     \* delete undefined[id]: TypeError
                 ELSE Ok([s1 EXCEPT !.masterObject = payload.data,
                                    !.inputs.presetState = default,
                                    !.inputs.urlState.presets = DeleteKey(@, id)])
        ELSE Ok(s1)

savePreset_fulfilled(s, payload) ==
    IF s.inputs.urlState = default
    THEN Threw(s)                  \* undefined[id] = preset: TypeError
    ELSE Ok([s EXCEPT !.masterObject = payload.data,
                      !.inputs.presetState = payload.preset,
                      !.inputs.urlState.presets = PutKey(@, payload.preset.id, payload.preset)])

validatePort_fulfilled(s, payload) == Ok([s EXCEPT !.validPort = payload.data])

makeRequest_fulfilledUnchecked(s, payload) ==
    Ok([s EXCEPT !.requestResult = IF payload # undefined THEN payload.data ELSE undefined,
                 !.waiting = FALSE])
makeRequest_fulfilled(s, payload) ==
    Ok([(IF payload # undefined THEN [s EXCEPT !.requestResult = payload.data] ELSE s)
          EXCEPT !.waiting = FALSE])

wipeStorageObject_fulfilled(s, payload) == Ok(s)

\* the completion reducer of each thunk
Fulfilled(thunk, s, payload) ==
    CASE thunk = "getMasterObject" -> getMasterObject_fulfilled(s, payload)
      [] thunk = "vscApi" -> vscApi_fulfilled(s, payload)
      [] thunk = "wipeStorageObject" -> wipeStorageObject_fulfilled(s, payload)
      [] thunk = "validatePort" -> validatePort_fulfilled(s, payload)
      [] thunk = "savePreset" -> savePreset_fulfilled(s, payload)
      [] thunk = "makeRequest" -> makeRequest_fulfilled(s, payload)

\* no reducer is registered for any thunk's rejected action
Rejected(thunk, s) == Ok(s)

\* ------------------------------------------------------- request builder
\* `:${k}`
Placeholder(k) == CASE k = "id" -> ":id" [] k = "page" -> ":page"
encodeURIComponent(v) == IF v = "a b" THEN "a%20b" ELSE v

\* String.prototype.replace with a string pattern: the first occurrence only
RECURSIVE ReplaceFirst(_, _, _)
ReplaceFirst(path, token, v) ==
    IF path = <<>> THEN <<>>
    ELSE IF Head(path) = token THEN <<v>> \o Tail(path)
    ELSE <<Head(path)>> \o ReplaceFirst(Tail(path), token, v)

\* the forEach over Object.entries(urlParams): the pathname after every
\* parameter with a non-empty value is substituted
RECURSIVE SubstituteParams(_, _, _)
SubstituteParams(path, params, keys) ==
    IF keys = {} THEN path
    ELSE LET k == CHOOSE x \in keys : TRUE
             p1 == IF params[k] # ""
                   THEN ReplaceFirst(path, Placeholder(k), encodeURIComponent(params[k]))
                   ELSE path
         IN  SubstituteParams(p1, params, keys \ {k})

\* some parameter has a non-empty value: the loop assigns currentUrl.pathname
AssignsPathname(params) == \E k \in DOMAIN params : params[k] # ""

NonEmpty(list) == SelectSeq(list, LAMBDA el : el.key # "" /\ el.value # "")

\* `${el.key} = ${el.value}`, kept as the pair
CookieString(el) == <<el.key, " = ", el.value>>

RECURSIVE MapCookies(_)
MapCookies(list) ==
    IF list = <<>> THEN <<>> ELSE <<CookieString(Head(list))>> \o MapCookies(Tail(list))

cookiesArray(inputs) == MapCookies(NonEmpty(inputs.cookieState.cookies))

\* headersObject[el.key] = el.value in list order: the last write wins
headersObject(inputs) ==
    LET hs == NonEmpty(inputs.headerState.headers)
        last(k) == CHOOSE i \in DOMAIN hs :
                       hs[i].key = k /\ \A j \in DOMAIN hs : hs[j].key = k => j <= i
    IN  [k \in {hs[i].key : i \in DOMAIN hs} |-> hs[last(k)].value]

\* { cookie, ...headersObject } or { ...headersObject }
MergeHeaders(cookie, ho) ==
    IF Len(cookie) > 0
    THEN [k \in {"cookie"} \cup DOMAIN ho |-> IF k \in DOMAIN ho THEN ho[k] ELSE cookie]
    ELSE ho

\* the request object makeRequest sends
BuildRequest(inputs) ==
    [ headers |-> MergeHeaders(cookiesArray(inputs), headersObject(inputs)),
      baseURL |-> inputs.urlState.href,
      method |-> inputs.methodState,
      data |-> inputs.dataState ]

\* ------------------------------------------------------- extension commands
\* what commands.executeCommand can resolve with, per command (the handlers are
\* outside this module)
Results(payload) ==
    CASE payload.command = "dataObjects" -> {MasterPartial, Master1}
      [] payload.command = "parseServer" -> {Master1, Master2}
      [] payload.command = "deletePreset" -> {Master2}
      [] payload.command = "wipeStorageObject" -> {undefined}
      [] payload.command = "savePreset" ->
            { [data |-> Master2,
               preset |-> [id |-> "p3", name |-> payload.data.name,
                           headerState |-> payload.data.headerState,
                           cookieState |-> payload.data.cookieState,
                           dataState |-> payload.data.dataState]] }
      [] payload.command = "validatePort" -> {TRUE, FALSE}
      [] payload.command = "makeRequest" -> {Response1}

Correlated ==
    {"dataObjects", "parseServer", "deletePreset", "wipeStorageObject", "savePreset",
     "validatePort", "makeRequest"}

\* the data field of the envelope the router's then-callback builds
ReplyData(command, e) ==
    IF command = "savePreset"
    THEN [command |-> command, data |-> e.data, preset |-> e.preset]
    ELSE [command |-> command, data |-> e]

\* ------------------------------------------------------------ variables
VARIABLES
    state,             \* the inputState slice of the live webview's store
    PENDING_REQUESTS,  \* reqId -> the thunk awaiting that call
    posted,            \* webview -> host messages in flight (vscode.postMessage)
    sent,              \* host -> webview envelopes in flight (webview.postMessage)
    hostOps,           \* extension commands the router started and that have not settled
    currentPanel,      \* ReverbPanel.currentPanel: 0 is undefined
    panels,            \* the ReverbPanel instances: those not disposed (live) and the
                       \* newest one (made); state and PENDING_REQUESTS are those of
                       \* the newest panel's webview
    autoFreeze,        \* whether the store's state objects are frozen (immer's setting):
                       \* "frozen" or "mutable", "unobserved" until an assignment shows it
    threw,             \* the last step ended in an uncaught TypeError
    lastAction,        \* history: the last action dispatched to the store
    calls,             \* history: every vscodeFetch call, indexed by reqId
    settled,           \* history: reqIds in the order their futures were settled
    arrived,           \* history: reqIds of the envelopes the listener handled, in order
    settledOps,        \* history: reqIds whose extension command settled
    replies,           \* history: every envelope the router sent, in order
    edits,             \* local dispatches so far
    faults,            \* envelopes handled so far that the router did not send
    limits             \* the bounds of the run on calls, edits and faults

vars == <<state, PENDING_REQUESTS, posted, sent, hostOps, currentPanel, panels, autoFreeze, threw,
          lastAction, calls, settled, arrived, settledOps, replies, edits, faults, limits>>

InitRest ==
    /\ PENDING_REQUESTS = <<>>
    /\ posted = <<>>
    /\ sent = <<>>
    /\ hostOps = {}
    /\ currentPanel = 1
    /\ panels = [live |-> {1}, made |-> 1]
    /\ autoFreeze = "unobserved"
    /\ threw = FALSE
    /\ lastAction = [action |-> "@@INIT"]
    /\ calls = <<>>
    /\ settled = <<>>
    /\ arrived = <<>>
    /\ settledOps = {}
    /\ replies = <<>>
    /\ edits = 0
    /\ faults = 0

Init ==
    /\ state \in StoreStates
    /\ limits = [calls |-> MaxCalls, edits |-> 0, faults |-> MaxFaults]
    /\ InitRest

InitLocal ==
    /\ state \in StoreStates
    /\ limits = [calls |-> 0, edits |-> MaxLocalEdits, faults |-> 0]
    /\ InitRest

InitPanel ==
    /\ state = initialState
    /\ limits = [calls |-> MaxPanelCalls, edits |-> 0, faults |-> 0]
    /\ InitRest

InitBuild ==
    /\ state \in BuildStates
    /\ limits = [calls |-> MaxBuildCalls, edits |-> 0, faults |-> 0]
    /\ InitRest

InitStore ==
    /\ state \in StoreStates
    /\ limits = [calls |-> MaxStoreCalls, edits |-> MaxEdits, faults |-> 0]
    /\ InitRest

\* the panel whose webview runs the store and the bridge of this model, and
\* whether that webview still exists
Window == panels.made
WindowLive == panels.made \in panels.live

\* ------------------------------------------------- webview: local dispatches
\* store.dispatch of the slice action a(payload), whose reducer yields s2
Dispatch(a, payload, s2) ==
    /\ WindowLive
    /\ edits < limits.edits
    /\ state' = s2
    /\ lastAction' = [action |-> a, arg |-> payload]
    /\ edits' = edits + 1
    /\ threw' = FALSE
    /\ UNCHANGED <<PENDING_REQUESTS, sent, hostOps, currentPanel, panels, autoFreeze, calls,
                   settled, arrived, settledOps, replies, faults, limits>>

SetUrlState ==
    \E payload \in UrlPayloads :
        /\ Dispatch("setUrlState", payload, setUrlState(state, payload))
        /\ posted' = IF payload = default
                     THEN posted
                     ELSE Append(posted, [panel |-> Window,
                                          payload |-> [command |-> "openFileInEditor",
                                                       data |-> JSONparse(payload).filePath]])

SetMethodState ==
    \E payload \in MethodPayloads :
        Dispatch("setMethodState", payload, setMethodState(state, payload)) /\ UNCHANGED posted

SetHeaderState ==
    \E payload \in HeaderPayloads :
        Dispatch("setHeaderState", payload, setHeaderState(state, payload)) /\ UNCHANGED posted

SetCookieState ==
    \E payload \in CookiePayloads :
        Dispatch("setCookieState", payload, setCookieState(state, payload)) /\ UNCHANGED posted

SetDataState ==
    \E payload \in DataPayloads :
        Dispatch("setDataState", payload, setDataState(state, payload)) /\ UNCHANGED posted

SetParamState ==
    \E payload \in ParamPayloads :
        Dispatch("setParamState", payload, setParamState(state, payload)) /\ UNCHANGED posted

SetLoading ==
    \E payload \in BOOLEAN :
        Dispatch("setLoading", payload, setLoading(state, payload)) /\ UNCHANGED posted

SetWaiting ==
    \E payload \in BOOLEAN :
        Dispatch("setWaiting", payload, setWaiting(state, payload)) /\ UNCHANGED posted

SetValidPort ==
    \E payload \in BOOLEAN :
        Dispatch("setValidPort", payload, setValidPort(state, payload)) /\ UNCHANGED posted

SetCurrentPreset ==
    \E payload \in PresetPayloads :
        Dispatch("setCurrentPreset", payload, setCurrentPreset(state, payload)) /\ UNCHANGED posted

SetMasterObject ==
    \E payload \in {[data |-> Master1]} :
        Dispatch("setMasterObject", payload, setMasterObject(state, payload)) /\ UNCHANGED posted

\* ------------------------------------------------------- webview: the bridge
\* vscodeFetch(payload) called by a thunk whose dispatches so far yield s2: a fresh
\* reqId, the envelope posted, the continuation registered
vscodeFetch(thunk, payload, s2) ==
    LET reqId == Len(calls) + 1
    IN  /\ WindowLive
        /\ Len(calls) < limits.calls
        /\ posted' = Append(posted, [panel |-> Window, reqId |-> reqId, payload |-> payload])
        /\ PENDING_REQUESTS' = PutKey(PENDING_REQUESTS, reqId, thunk)
        /\ calls' = Append(calls, [thunk |-> thunk, panel |-> Window,
                                   payload |-> payload, status |-> "pending",
                                   value |-> undefined])
        /\ state' = s2
        /\ lastAction' = [action |-> thunk, arg |-> reqId, phase |-> "pending"]
        /\ threw' = FALSE
        /\ UNCHANGED <<sent, hostOps, currentPanel, panels, settled, arrived,
                       settledOps, replies, edits, faults, limits>>

\* const message = event.data; PENDING_REQUESTS[message.reqId]: the key the
\* listener looks the continuation up under
CorrelateOldest(table, message) ==
    IF DOMAIN table = {} THEN message.reqId
    ELSE CHOOSE r \in DOMAIN table : \A q \in DOMAIN table : r <= q
Correlate(table, message) == message.reqId

\* delete PENDING_REQUESTS[message.reqId]
RemoveEntryNever(table, message) == table
RemoveEntryOnData(table, message) ==
    IF "data" \in DOMAIN message THEN DeleteKey(table, message.reqId) ELSE table
RemoveEntry(table, message) == DeleteKey(table, message.reqId)

\* the window 'message' listener run on one envelope, with the continuation of
\* the thunk it settles (the thunk returns the data and its fulfilled action is
\* reduced, or the thunk rejects)
onMessage(message) ==
    IF "reqId" \in DOMAIN message
    THEN LET reqId == Correlate(PENDING_REQUESTS, message)
             known == reqId \in DOMAIN PENDING_REQUESTS
             p == PENDING_REQUESTS[reqId]
             resolves == "data" \in DOMAIN message
             out == IF resolves THEN Fulfilled(p, state, message.data)
                                ELSE Rejected(p, state)
         IN  /\ PENDING_REQUESTS' = RemoveEntry(PENDING_REQUESTS, message)
             /\ arrived' = Append(arrived, message.reqId)
             /\ IF known
                THEN /\ state' = IF out.threw THEN state ELSE out.state
                     /\ threw' = out.threw
                     /\ lastAction' = [action |-> p, arg |-> reqId,
                                       phase |-> IF resolves THEN "fulfilled"
                                                             ELSE "rejected"]
                     /\ settled' = Append(settled, reqId)
                     /\ calls' = [calls EXCEPT
                                    ![reqId].status = IF resolves THEN "resolved"
                                                                  ELSE "rejected",
                                    ![reqId].value = IF resolves THEN message.data
                                                                 ELSE message.err]
                ELSE \* p is undefined: p.resolve / p.reject is a TypeError
                     /\ threw' = TRUE
                     /\ UNCHANGED <<state, lastAction, settled, calls>>
    ELSE /\ threw' = FALSE
         /\ UNCHANGED <<state, lastAction, PENDING_REQUESTS, arrived, settled, calls>>

\* the next envelope the host sent reaches the window it was sent to (what the
\* listener of another panel's webview does with it is not followed)
DeliverReply ==
    /\ sent # <<>>
    /\ sent' = Tail(sent)
    /\ IF Head(sent).panel = Window
       THEN onMessage(Head(sent).message)
       ELSE /\ threw' = FALSE
            /\ UNCHANGED <<state, lastAction, PENDING_REQUESTS, arrived, settled, calls>>
    /\ UNCHANGED <<posted, hostOps, currentPanel, panels, autoFreeze, settledOps, replies,
                   edits, faults, limits>>

\* envelopes in the inbound format { reqId, data?, err? } that the router's
\* then-callbacks do not produce: a failure, or a reply delivered once more
OtherEnvelopes ==
    {[reqId |-> r, err |-> [error |-> "failed"]] : r \in DOMAIN calls}
    \cup {[reqId |-> r, data |-> calls[r].value] :
              r \in {x \in DOMAIN calls : calls[x].status = "resolved"}}

DeliverOther ==
    \E message \in OtherEnvelopes :
        /\ WindowLive
        /\ faults < limits.faults
        /\ faults' = faults + 1
        /\ onMessage(message)
        /\ UNCHANGED <<posted, sent, hostOps, currentPanel, panels, autoFreeze, settledOps, replies,
                       edits, limits>>

\* ------------------------------------------------------- webview: thunks
GetMasterObject ==
    /\ vscodeFetch("getMasterObject", [command |-> "dataObjects"], state)
    /\ UNCHANGED autoFreeze

VscApi ==
    \E payload \in VscApiPayloads :
        vscodeFetch("vscApi", payload, state) /\ UNCHANGED autoFreeze

WipeStorageObject ==
    \E payload \in WipePayloads :
        /\ vscodeFetch("wipeStorageObject", payload, setLoading(state, TRUE))
        /\ UNCHANGED autoFreeze

ValidatePort ==
    \E payload \in PortPayloads :
        /\ vscodeFetch("validatePort", [command |-> "validatePort", data |-> payload],
                       state)
        /\ UNCHANGED autoFreeze

\* the preset draft savePreset assembles from the inputs
PresetDraft(inputs, payload) ==
    JSONparse(JSONstringify([name |-> payload,
                             urlState |-> inputs.urlState,
                             headerState |-> inputs.headerState,
                             cookieState |-> inputs.cookieState,
                             dataState |-> inputs.dataState]))

SavePreset ==
    \E payload \in NamePayloads :
        /\ vscodeFetch("savePreset",
                       [command |-> "savePreset",
                        data |-> PresetDraft(state.inputs, payload)],
                       state)
        /\ UNCHANGED autoFreeze

\* makeRequest when it returns or throws before it calls vscodeFetch: the
\* dispatches it made yield s2
MakeRequestLocal(s2, phase) ==
    /\ WindowLive
    /\ state' = s2
    /\ lastAction' = [action |-> "makeRequest", arg |-> 0, phase |-> phase]
    /\ threw' = FALSE
    /\ UNCHANGED <<PENDING_REQUESTS, posted, sent, hostOps, currentPanel, panels, calls,
                   settled, arrived, settledOps, replies, edits, faults, limits>>

\* makeRequest up to its await (and to its end when it does not reach it)
MakeRequest ==
    LET s1 == setWaiting(state, TRUE)
        inputs == s1.inputs
        \* currentUrl is the object in the store: with a mutable state the
        \* assignment to currentUrl.pathname changes the store's urlState
        s2 == [s1 EXCEPT !.inputs.urlState.pathname =
                   SubstituteParams(@, inputs.paramState, DOMAIN inputs.paramState)]
    IN  IF inputs.urlState = default
        THEN \* returns undefined: the fulfilled action carries no payload
             /\ MakeRequestLocal(
                    makeRequest_fulfilled(setWaiting(s1, FALSE), undefined).state,
                    "fulfilled")
             /\ UNCHANGED autoFreeze
        ELSE IF ~AssignsPathname(inputs.paramState)
        THEN /\ vscodeFetch("makeRequest",
                            [command |-> "makeRequest", data |-> BuildRequest(inputs)], s1)
             /\ UNCHANGED autoFreeze
        ELSE \E f \in (IF autoFreeze = "unobserved" THEN {"frozen", "mutable"}
                       ELSE {autoFreeze}) :
                /\ autoFreeze' = f
                /\ IF f = "frozen"
                   THEN \* the assignment throws: the thunk is rejected
                        MakeRequestLocal(Rejected("makeRequest", s1).state, "rejected")
                   ELSE vscodeFetch("makeRequest",
                                    [command |-> "makeRequest",
                                     data |-> BuildRequest(s2.inputs)], s2)

\* ------------------------------------------------------- host: ReverbPanel
\* the onDidReceiveMessage handler of the panel whose webview posted the next
\* message
RouterReceive ==
    /\ posted # <<>>
    /\ Head(posted).panel \in panels.live
    /\ posted' = Tail(posted)
    /\ LET msg == Head(posted)
       IN  hostOps' = IF msg.payload.command \in Correlated
                      THEN hostOps \cup {[reqId |-> msg.reqId, payload |-> msg.payload]}
                      ELSE hostOps
    /\ threw' = FALSE
    /\ UNCHANGED <<state, lastAction, PENDING_REQUESTS, sent, currentPanel, panels, autoFreeze,
                   calls, settled, arrived, settledOps, replies, edits, faults, limits>>

\* ReverbPanel.currentPanel?.send(data)
send(data) ==
    IF currentPanel # 0
    THEN /\ sent' = Append(sent, [panel |-> currentPanel, message |-> data])
         /\ replies' = Append(replies, [panel |-> currentPanel, message |-> data])
    ELSE UNCHANGED <<sent, replies>>

\* an extension command resolves and the then-callback of its case runs
OperationFulfils ==
    \E op \in hostOps : \E e \in Results(op.payload) :
        /\ hostOps' = hostOps \ {op}
        /\ settledOps' = settledOps \cup {op.reqId}
        /\ send([reqId |-> op.reqId, data |-> ReplyData(op.payload.command, e)])
        /\ threw' = FALSE
        /\ UNCHANGED <<state, lastAction, PENDING_REQUESTS, posted, currentPanel, panels, autoFreeze,
                       calls, settled, arrived, edits, faults, limits>>

\* an extension command rejects: no case installs a rejection callback
OperationRejects ==
    \E op \in hostOps :
        /\ hostOps' = hostOps \ {op}
        /\ settledOps' = settledOps \cup {op.reqId}
        /\ threw' = FALSE
        /\ UNCHANGED <<state, lastAction, PENDING_REQUESTS, posted, sent, replies, currentPanel, panels,
                       autoFreeze, calls, settled, arrived, edits, faults, limits>>

\* new ReverbPanel(panel, extensionUri) for a panel with a new webview: the
\* handlers are registered, the html is loaded and the script starts with the
\* initial store and an empty table; the caller assigns currentPanel
NewPanel(id) ==
    /\ panels' = [live |-> panels.live \cup {id}, made |-> id]
    /\ currentPanel' = id
    /\ state' = initialState
    /\ PENDING_REQUESTS' = <<>>
    /\ threw' = FALSE
    /\ UNCHANGED <<posted, sent, hostOps, autoFreeze, lastAction, calls, settled, arrived,
                   settledOps, replies, edits, faults, limits>>

createOrShow ==
    IF currentPanel # 0
    THEN UNCHANGED vars            \* reveal
    ELSE panels.made < MaxPanels /\ NewPanel(panels.made + 1)

revive ==
    panels.made < MaxPanels /\ NewPanel(panels.made + 1)

\* dispose() of panel p, run when its webview panel is closed: the panel's
\* handlers are disposed and its webview is gone, with the messages in flight
\* from it and to it
dispose ==
    \E p \in panels.live :
        /\ currentPanel' = 0
        /\ panels' = [panels EXCEPT !.live = @ \ {p}]
        /\ posted' = SelectSeq(posted, LAMBDA m : m.panel # p)
        /\ sent' = SelectSeq(sent, LAMBDA m : m.panel # p)
        /\ threw' = FALSE
        /\ UNCHANGED <<state, PENDING_REQUESTS, hostOps, autoFreeze, lastAction, calls,
                       settled, arrived, settledOps, replies, edits, faults, limits>>

Thunks ==
    \/ GetMasterObject \/ VscApi \/ WipeStorageObject \/ ValidatePort \/ SavePreset
    \/ MakeRequest

Channel == DeliverReply \/ RouterReceive \/ OperationFulfils \/ OperationRejects

LocalDispatches ==
    \/ SetUrlState \/ SetMethodState \/ SetHeaderState \/ SetCookieState
    \/ SetDataState \/ SetParamState \/ SetLoading \/ SetWaiting \/ SetValidPort
    \/ SetCurrentPreset \/ SetMasterObject

\* the bridge and the router under concurrent calls
Next == Thunks \/ Channel \/ DeliverOther

Spec == Init /\ [][Next]_vars

\* the store under local dispatches and calls
NextStore == LocalDispatches \/ Thunks \/ Channel

SpecStore == InitStore /\ [][NextStore]_vars

\* the router while panels are closed, created and restored
Lifecycle == createOrShow \/ revive \/ dispose

NextPanel == Thunks \/ Channel \/ Lifecycle

SpecPanel == InitPanel /\ [][NextPanel]_vars

\* makeRequest on every combination of header list, cookie list and parameters
NextBuild == MakeRequest \/ Channel

SpecBuild == InitBuild /\ [][NextBuild]_vars

\* the reducers alone, from the states of StoreStates
NextLocal == LocalDispatches

SpecLocal == InitLocal /\ [][NextLocal]_vars

\* ---------------------------------------------------------------- claims
Range(seq) == {seq[i] : i \in DOMAIN seq}

\* the reqIds of a sequence in the order of their first occurrence
RECURSIVE FirstOccurrences(_)
FirstOccurrences(seq) ==
    IF seq = <<>> THEN <<>>
    ELSE LET init == FirstOccurrences(SubSeq(seq, 1, Len(seq) - 1))
             last == seq[Len(seq)]
         IN  IF last \in Range(init) THEN init ELSE Append(init, last)

\* the number of times the listener settled the future of call r
TimesSettled(r) == Cardinality({i \in DOMAIN settled : settled[i] = r})

\* C1: correlation uniqueness. Every future is settled at most once, a call's
\* future is settled exactly when an envelope with its reqId has arrived, and
\* every distinct reqId that arrived settled exactly one future: a second
\* envelope with the same reqId settles nothing.
C1_CorrelationUniqueness ==
    /\ \A r \in DOMAIN calls : TimesSettled(r) <= 1
    /\ \A r \in DOMAIN calls :
          /\ (calls[r].status # "pending") <=> (r \in Range(arrived))
          /\ (calls[r].status # "pending") <=> (TimesSettled(r) = 1)
    /\ Len(settled) = Cardinality(Range(arrived))

\* two calls were in flight together, both were settled, and one more envelope
\* with a reqId already replied to arrived
C1_Witness ==
    /\ Len(calls) = 2
    /\ Len(settled) = 2
    /\ Len(arrived) = 3
    /\ \E i, j \in DOMAIN arrived : i < j /\ arrived[i] = arrived[j]
    /\ settled[1] \in DOMAIN calls /\ calls[settled[1]].status = "resolved"

\* C2: reply routing is independent of arrival order. Futures are settled in
\* the order in which the first envelope of each reqId arrives, whatever the
\* order of the calls, and a resolved future holds the data of an envelope the
\* router sent under the call's own reqId, answering the call's own command.
C2_RoutingByReqId ==
    /\ settled = FirstOccurrences(arrived)
    /\ \A r \in DOMAIN calls :
          calls[r].status = "resolved" =>
              /\ \E i \in DOMAIN replies :
                    /\ replies[i].message.reqId = r
                    /\ replies[i].message.data = calls[r].value
              /\ calls[r].value.command = calls[r].payload.command

\* calls A then B were issued, B's reply arrived first and A's second, and
\* both futures are resolved
C2_Witness ==
    /\ Len(calls) = 2
    /\ settled = <<2, 1>>
    /\ calls[1].status = "resolved" /\ calls[2].status = "resolved"
    /\ calls[1].payload.command # calls[2].payload.command

\* C3: the in-flight table holds exactly the reqIds of the calls issued for
\* which no envelope has arrived yet: an entry is there until the first
\* matching reply and never after it.
C3_TableIsInFlightCalls ==
    DOMAIN PENDING_REQUESTS = {r \in DOMAIN calls : r \notin Range(arrived)}

\* one call was replied to and removed while another is still in the table
C3_Witness ==
    /\ Len(calls) = 2
    /\ DOMAIN PENDING_REQUESTS = {2}
    /\ arrived = <<1>>
    /\ calls[1].status = "rejected"

\* the listener handled an envelope in this step, and its reqId was not in the table
StaleEnvelopeStep ==
    /\ Len(arrived') = Len(arrived) + 1
    /\ arrived'[Len(arrived')] \notin DOMAIN PENDING_REQUESTS

\* C4: an envelope whose reqId is not in the in-flight table is silently
\* dropped: no future is settled, the table and the store are unchanged and
\* the listener raises no error.
C4_StaleEnvelopeDropped ==
    [][StaleEnvelopeStep =>
          /\ settled' = settled
          /\ calls' = calls
          /\ PENDING_REQUESTS' = PENDING_REQUESTS
          /\ state' = state
          /\ threw' = FALSE]_vars

\* the envelopes the router sent under reqId r
RepliesTo(r) == {i \in DOMAIN replies : replies[i].message.reqId = r}

\* C5: once the extension command of a correlated envelope has settled,
\* fulfilled or rejected, the router has sent exactly one reply envelope with
\* the envelope's reqId.
C5_OneReplyPerSettledCommand ==
    \A r \in settledOps : Cardinality(RepliesTo(r)) = 1

\* call r completed in this step: its future was pending and is now settled
Completes(r) == calls[r].status = "pending" /\ calls'[r].status # "pending"

\* C6: when the call of a makeRequest completes, by a reply that resolves its
\* future or by one that rejects it, waiting is false.
C6_WaitingClearedOnCompletion ==
    [][\A r \in DOMAIN calls :
          (calls[r].thunk = "makeRequest" /\ Completes(r)) => state'.waiting = FALSE]_vars

\* C7: makeRequest dispatched while url is 'default' sends no envelope, adds
\* no entry to the in-flight table, leaves requestResult as it was and ends
\* with waiting false.
C7_DefaultUrlAborts ==
    [][(MakeRequest /\ state.inputs.urlState = default) =>
          /\ posted' = posted
          /\ PENDING_REQUESTS' = PENDING_REQUESTS
          /\ calls' = calls
          /\ state'.requestResult = state.requestResult
          /\ state'.waiting = FALSE]_vars

\* makeRequest has just aborted on the 'default' url while the result of an
\* earlier request is in the store
C7_Witness ==
    /\ lastAction = [action |-> "makeRequest", arg |-> 0, phase |-> "fulfilled"]
    /\ state.inputs.urlState = default
    /\ state.requestResult = Response1
    /\ state.waiting = FALSE
    /\ posted = <<>>

\* a local dispatch of the slice action a happened in this step
Dispatched(a) == edits' = edits + 1 /\ lastAction'.action = a

HasContentType(headers) == \E i \in DOMAIN headers : headers[i].key = "Content-Type"

\* C8: setDataState(body) with a non-empty body and no 'Content-Type' header
\* prepends exactly the application/json header in the same transition;
\* otherwise it leaves the header list as it was.
C8_ContentTypeAutoInsert ==
    [][Dispatched("setDataState") =>
          LET body == lastAction'.arg
              h == state.inputs.headerState.headers
              h2 == state'.inputs.headerState.headers
          IN  /\ state'.inputs.dataState = body
              /\ IF body # "" /\ ~HasContentType(h)
                 THEN h2 = <<ContentTypeJson>> \o h
                 ELSE h2 = h]_vars

\* setDataState with a body has just prepended the header to a non-empty list
C8_Witness ==
    /\ lastAction = [action |-> "setDataState", arg |-> "{}"]
    /\ state.inputs.dataState = "{}"
    /\ state.inputs.headerState.headers = <<ContentTypeJson, XToken>>

\* C9: setUrlState with a url yields that url with empty headers, cookies and
\* path parameters, an empty body and the 'default' preset; setUrlState
\* ('default') replaces the url and no other input.
C9_DependentReset ==
    [][Dispatched("setUrlState") =>
          LET payload == lastAction'.arg
              i2 == state'.inputs
          IN  IF payload # default
              THEN /\ i2.urlState = payload.json
                   /\ i2.headerState.headers = <<>>
                   /\ i2.cookieState.cookies = <<>>
                   /\ i2.paramState = <<>>
                   /\ i2.dataState = ""
                   /\ i2.presetState = default
              ELSE i2 = [state.inputs EXCEPT !.urlState = default]]_vars

\* setUrlState with a url has just reset the inputs of a state that had a
\* preset, headers and a body (the method it had is still there)
C9_Witness ==
    /\ lastAction = [action |-> "setUrlState", arg |-> JSONstringify(Url1)]
    /\ edits = 1
    /\ state.inputs.methodState = "GET"
    /\ state.inputs.urlState = Url1
    /\ state.inputs.headerState.headers = <<>>
    /\ state.inputs.dataState = ""
    /\ state.inputs.presetState = default

\* C10: when a vscApi deletePreset call for preset P completes and its reply
\* is folded into the state, presetState is 'default', masterObject is the
\* reply's and the url's preset map no longer contains P, whatever was
\* dispatched between the call and its reply.
C10_DeleteRemovesLocalReference ==
    [][\A r \in DOMAIN calls :
          ( /\ calls[r].thunk = "vscApi"
            /\ calls[r].payload.command = "deletePreset"
            /\ calls[r].status = "pending"
            /\ calls'[r].status = "resolved"
            /\ threw' = FALSE )
          => /\ state'.inputs.presetState = default
             /\ state'.masterObject = calls'[r].value.data
             /\ calls[r].payload.data \notin DOMAIN state'.inputs.urlState.presets]_vars

\* call r of thunk t was pending and the reply of this step resolved it
Resolves(r, t) ==
    /\ calls[r].thunk = t
    /\ calls[r].status = "pending"
    /\ calls'[r].status = "resolved"

\* C11: two-phase discovery. When the reply of getMasterObject lacks a domains
\* field, masterObject.serverPaths and masterObject.rootDirectory become the
\* reply's and every other field of the state, loading and
\* masterObject.domains included, is as it was; when the reply has a domains
\* field, masterObject becomes the reply and loading becomes false.
C11_TwoPhaseDiscovery ==
    [][\A r \in DOMAIN calls :
          Resolves(r, "getMasterObject") =>
              LET reply == calls'[r].value.data
              IN  IF "domains" \notin DOMAIN reply
                  THEN state' = [state EXCEPT
                                    !.masterObject.serverPaths = reply.serverPaths,
                                    !.masterObject.rootDirectory = reply.rootDirectory]
                  ELSE state' = [state EXCEPT !.masterObject = reply,
                                              !.loading = FALSE]]_vars

\* the partial catalog has just been merged: the store is still loading and
\* holds the reply's server paths next to the domains it had
C11_Witness ==
    /\ lastAction.action = "getMasterObject" /\ lastAction.phase = "fulfilled"
    /\ calls[lastAction.arg].value.data = MasterPartial
    /\ state.loading = TRUE
    /\ state.masterObject = [domains |-> {}, serverPaths |-> <<"/x">>,
                             rootDirectory |-> "/root"]

\* makeRequest issued call r in this step
Issues(r) ==
    /\ r \in DOMAIN calls' /\ r \notin DOMAIN calls
    /\ calls'[r].thunk = "makeRequest"

\* the entries of a list with a non-empty key and a non-empty value
Surviving(list) == SelectSeq(list, LAMBDA el : el.key # "" /\ el.value # "")

\* C12: cookie merge. The headers of the descriptor makeRequest sends have a
\* 'cookie' field exactly when some cookie has a non-empty key and a non-empty
\* value, and the field is then the list of the 'key = value' strings of those
\* cookies in input order, duplicates kept, for every header list (a header's
\* value is a string: a 'cookie' field taken from a header is not that list).
C12_CookieMerge ==
    [][\A r \in DOMAIN calls' :
          Issues(r) =>
              LET headers == calls'[r].payload.data.headers
                  kept == Surviving(state.inputs.cookieState.cookies)
                  fromHeader == \E h \in Range(Surviving(state.inputs.headerState.headers)) :
                                    h.key = "cookie"
              IN  /\ ("cookie" \in DOMAIN headers) <=> (kept # <<>>)
                  /\ kept # <<>> =>
                        /\ ~fromHeader
                        /\ headers.cookie =
                              [i \in 1..Len(kept) |-> <<kept[i].key, " = ", kept[i].value>>]]_vars

\* the path of a url with the token ':name' replaced by the encoded value for
\* every parameter with a non-empty value
SubstitutedPath(url, params) == SubstituteParams(url.pathname, params, DOMAIN params)

\* C13: path substitution. The baseURL of the descriptor makeRequest sends is
\* the selected url with ':name' replaced by the encoded value for every path
\* parameter with a non-empty value, the other placeholders left as they are.
C13_PathSubstitution ==
    [][\A r \in DOMAIN calls' :
          Issues(r) =>
              LET url == state.inputs.urlState
              IN  calls'[r].payload.data.baseURL =
                      Href(url.origin, SubstitutedPath(url, state.inputs.paramState))]_vars

\* C14: the request builder is pure. A makeRequest dispatch leaves every
\* request input of the store (url with its path, method, headers, cookies,
\* body, path parameters, preset) as it was.
C14_BuilderIsPure ==
    [][MakeRequest => state'.inputs = state.inputs]_vars

\* C15: in every reachable state of the store, a non-empty body comes with a
\* header with key 'Content-Type' in the header list.
C15_BodyHasContentType ==
    state.inputs.dataState # "" => HasContentType(state.inputs.headerState.headers)

\* C16: savePreset completion. The draft sent holds the url, headers, cookies
\* and body of the store at dispatch, and when the reply of a savePreset for
\* a url is folded, masterObject is the reply's data, presetState is the
\* returned preset, and the returned preset is under its id in the preset map
\* of the url it was saved for, whatever was dispatched in between.
C16_SavePresetCompletion ==
    [][\A r \in DOMAIN calls' :
          /\ (r \notin DOMAIN calls /\ calls'[r].thunk = "savePreset") =>
                LET draft == calls'[r].payload.data
                IN  /\ draft.urlState = state.inputs.urlState
                    /\ draft.headerState = state.inputs.headerState
                    /\ draft.cookieState = state.inputs.cookieState
                    /\ draft.dataState = state.inputs.dataState
          /\ (r \in DOMAIN calls /\ Resolves(r, "savePreset")
                 /\ calls[r].payload.data.urlState # default) =>
                LET reply == calls'[r].value
                    savedFor == calls[r].payload.data.urlState
                    url == state'.inputs.urlState
                IN  /\ state'.masterObject = reply.data
                    /\ state'.inputs.presetState = reply.preset
                    /\ url # default
                    /\ url.filePath = savedFor.filePath
                    /\ reply.preset.id \in DOMAIN url.presets
                    /\ url.presets[reply.preset.id] = reply.preset]_vars

\* C17: a wipeStorageObject reply is a no-op. Folding the reply of a call with
\* command wipeStorageObject, issued by the wipeStorageObject thunk or by
\* vscApi, leaves the whole state as it was, and the wipeStorageObject thunk
\* changes nothing but loading, which it sets to true before the call.
C17_WipeReplyIsNoOp ==
    [][\A r \in DOMAIN calls' :
          /\ (r \in DOMAIN calls /\ calls[r].payload.command = "wipeStorageObject"
                 /\ calls[r].status = "pending" /\ calls'[r].status = "resolved") =>
                (state' = state /\ threw' = FALSE)
          /\ (r \notin DOMAIN calls /\ calls'[r].thunk = "wipeStorageObject") =>
                state' = [state EXCEPT !.loading = TRUE]]_vars

\* a catalog was loaded (loading false), and then the reply of a vscApi
\* wipeStorageObject call was folded and left it there
C17_Witness ==
    /\ lastAction.action = "vscApi" /\ lastAction.phase = "fulfilled"
    /\ calls[lastAction.arg].payload.command = "wipeStorageObject"
    /\ state.masterObject = Master1
    /\ state.loading = FALSE

\* C18: in every reachable state, waiting is true while a makeRequest call is
\* in flight (issued, no reply yet), with several in flight as well.
C18_WaitingWhileInFlight ==
    (\E r \in DOMAIN calls : calls[r].thunk = "makeRequest" /\ calls[r].status = "pending")
        => state.waiting = TRUE

\* C19: every successful reply is folded without error: the completion
\* reducer applied when a reply resolves a call does not throw, whatever was
\* dispatched between the call and its reply.
C19_CompletionReducerDefined ==
    [][\A r \in DOMAIN calls :
          (calls[r].status = "pending" /\ calls'[r].status = "resolved")
              => threw' = FALSE]_vars

\* C20: every reply envelope of the router is sent on the channel of the
\* panel whose webview issued the call with that reqId.
C20_ReplyToRequestingPanel ==
    \A i \in DOMAIN replies : replies[i].panel = calls[replies[i].message.reqId].panel

====
